---- MODULE Spec2Model ----
(***************************************************************************)
(* Model of the Market-Sim backtest engine (src/backtest.py) and of the    *)
(* callers that feed it (src/app_cli.py, src/app_streamlit.py).            *)
(*                                                                         *)
(* Numbers.  The code computes on IEEE-754 doubles held in numpy arrays    *)
(* and pandas Series.  A number is modelled as a pair <<n, d>>:            *)
(*   d > 0            the rational n/d in lowest terms,                    *)
(*   <<1, 0>>         +inf,   <<-1, 0>>  -inf,   <<0, 0>>  NaN.            *)
(* The special values follow the IEEE rules the code relies on (x/0,       *)
(* inf-inf, 0*inf, NaN propagation) and pandas' skipna reductions.         *)
(* Finite arithmetic is exact: rounding error of doubles and the sign of   *)
(* zero are not represented, so "equal" below means equal as real numbers. *)
(* A missing price is NaN, as in pandas.                                   *)
(*                                                                         *)
(* Square roots.  std() and the factor sqrt(252) are irrational; a value   *)
(* x that the code obtains through a square root is carried as its signed  *)
(* square x*|x| (annual_vol, sharpe).                                      *)
(***************************************************************************)
EXTENDS Integers, Sequences, FiniteSets, TLC

VARIABLES prices, weights, initial_amount, fill_method, risk_free_rate,
          pc, results, port_returns, equity_curve, metrics, error,
          \* the presentation layers: what the user entered and the download returned
          layer, tickers, columns, dates_ok, use_custom_weights, weights_map,
          include_spy,
          \* the benchmark call of the presentation layers
          spy_prices, spy_pc, spy_returns, spy_equity_curve, spy_metrics

appvars == <<layer, tickers, columns, dates_ok, use_custom_weights, weights_map,
             include_spy>>
spyvars == <<spy_prices, spy_pc, spy_returns, spy_equity_curve, spy_metrics>>

vars == <<prices, weights, initial_amount, fill_method, risk_free_rate,
          pc, results, port_returns, equity_curve, metrics, error,
          appvars, spyvars>>

-----------------------------------------------------------------------------
(* Bounds of the model *)

MaxRows == 3
MaxMissing == 1
MaxLen == 2
MaxAppRows == 2

-----------------------------------------------------------------------------
(* Extended rational arithmetic standing for float64 *)

NaN == <<0, 0>>
PInf == <<1, 0>>
NInf == <<-1, 0>>

Abs(x) == IF x < 0 THEN -x ELSE x
Sgn(x) == IF x < 0 THEN -1 ELSE IF x > 0 THEN 1 ELSE 0

RECURSIVE GCD(_, _)
GCD(a, b) == IF b = 0 THEN a ELSE GCD(b, a % b)

\* n/d in lowest terms with a positive denominator; d # 0
Frac(n, d) ==
    LET g == GCD(Abs(n), Abs(d))
    IN  IF d < 0 THEN <<(0 - n) \div g, (0 - d) \div g>> ELSE <<n \div g, d \div g>>

Num(n) == <<n, 1>>
Zero == <<0, 1>>
One == <<1, 1>>

IsNaN(a) == a = NaN
IsInf(a) == a[2] = 0 /\ a[1] # 0
IsFinite(a) == a[2] > 0
Sign(a) == Sgn(a[1])

Neg(a) == <<0 - a[1], a[2]>>

Add(a, b) ==
    IF IsNaN(a) \/ IsNaN(b) THEN NaN
    ELSE IF IsInf(a) /\ IsInf(b) THEN (IF a = b THEN a ELSE NaN)
    ELSE IF IsInf(a) THEN a
    ELSE IF IsInf(b) THEN b
    ELSE LET g == GCD(a[2], b[2])
         IN  Frac(a[1] * (b[2] \div g) + b[1] * (a[2] \div g), (a[2] \div g) * b[2])

Sub(a, b) == Add(a, Neg(b))

Mul(a, b) ==
    IF IsNaN(a) \/ IsNaN(b) THEN NaN
    ELSE IF IsInf(a) \/ IsInf(b)
         THEN <<Sign(a) * Sign(b), 0>>
    ELSE LET g == GCD(Abs(a[1]), b[2])
             h == GCD(Abs(b[1]), a[2])
         IN  Frac((a[1] \div g) * (b[1] \div h), (a[2] \div h) * (b[2] \div g))

Div(a, b) ==
    IF IsNaN(a) \/ IsNaN(b) THEN NaN
    ELSE IF IsInf(b) THEN (IF IsInf(a) THEN NaN ELSE Zero)
    ELSE IF IsInf(a) THEN <<Sign(a) * (IF Sign(b) < 0 THEN -1 ELSE 1), 0>>
    ELSE IF b[1] = 0 THEN <<Sign(a), 0>>
    ELSE Mul(a, Frac(b[2], b[1]))

\* a < b and a <= b on floats: false as soon as one side is NaN
Less(a, b) ==
    /\ ~IsNaN(a) /\ ~IsNaN(b)
    /\ IF IsInf(a) \/ IsInf(b)
       THEN (a = NInf /\ b # NInf) \/ (b = PInf /\ a # PInf)
       ELSE a[1] * b[2] < b[1] * a[2]

Leq(a, b) == ~IsNaN(a) /\ ~IsNaN(b) /\ (a = b \/ Less(a, b))

FMax(a, b) == IF Less(a, b) THEN b ELSE a
FMin(a, b) == IF Less(b, a) THEN b ELSE a

\* x * |x| : the signed square that stands for a value known through a root
SignedSq(a) == IF Sign(a) < 0 THEN Neg(Mul(a, a)) ELSE Mul(a, a)

-----------------------------------------------------------------------------
(* numpy / pandas operations used by src/backtest.py.                      *)
(* A price table is a sequence of rows in date order, each row a sequence  *)
(* of one price per ticker column; the date of a row is its position.  A   *)
(* frame is a sequence of [date, row] and a series a sequence of           *)
(* [date, val], so that dropped dates stay visible.                        *)

Range(s) == {s[i] : i \in DOMAIN s}
Dates(s) == [i \in DOMAIN s |-> s[i].date]
Vals(s) == [i \in DOMAIN s |-> s[i].val]

\* DataFrame.ffill: the last valid price at or before row t, column i
RECURSIVE FFillCell(_, _, _)
FFillCell(table, t, i) ==
    IF t = 1 \/ ~IsNaN(table[t][i]) THEN table[t][i]
    ELSE FFillCell(table, t - 1, i)

ffill(table) ==
    [t \in DOMAIN table |-> [i \in DOMAIN table[t] |-> FFillCell(table, t, i)]]

\* fault seeded into pct_change: the first row given the return 0.0
pct_change_first_zero(table, fm) ==
    [t \in DOMAIN table |->
        [date |-> t,
         row  |-> [i \in DOMAIN table[t] |->
                     IF t = 1 THEN Zero
                     ELSE Sub(Div(table[t][i], table[t - 1][i]), One)]]]

\* DataFrame.pct_change(): data / data.shift(1) - 1, the first row all NaN.
\* fm = "pad": pandas < 3 forward-fills missing prices first (its default
\* fill_method); fm = "none": pandas >= 3 does not fill.
pct_change(table, fm) ==
    LET data == IF fm = "pad" THEN ffill(table) ELSE table
    IN  [t \in DOMAIN table |->
            [date |-> t,
             row  |-> [i \in DOMAIN table[t] |->
                         IF t = 1 THEN NaN
                         ELSE Sub(Div(data[t][i], data[t - 1][i]), One)]]]

\* DataFrame.dropna(): keep the rows that hold no NaN
dropna(frame) ==
    SelectSeq(frame, LAMBDA r : \A i \in DOMAIN r.row : ~IsNaN(r.row[i]))

\* ndarray.sum(): plain left-to-right sum, 0.0 for an empty array
RECURSIVE NpSumTo(_, _)
NpSumTo(a, n) == IF n = 0 THEN Zero ELSE Add(NpSumTo(a, n - 1), a[n])
NpSum(a) == NpSumTo(a, Len(a))

\* pandas sum(skipna=True): NaN entries count as 0, an all-NaN row sums to 0.0
RECURSIVE NanSumTo(_, _)
NanSumTo(a, n) ==
    IF n = 0 THEN Zero
    ELSE Add(NanSumTo(a, n - 1), IF IsNaN(a[n]) THEN Zero ELSE a[n])
NanSum(a) == NanSumTo(a, Len(a))

\* Series.cumprod(skipna=True): NaN entries are stepped over (taken as 1.0)
\* and show NaN in the result
RECURSIVE AccProd(_, _)
AccProd(v, n) ==
    IF n = 0 THEN One
    ELSE Mul(AccProd(v, n - 1), IF IsNaN(v[n]) THEN One ELSE v[n])
cumprod(v) == [i \in DOMAIN v |-> IF IsNaN(v[i]) THEN NaN ELSE AccProd(v, i)]

\* Series.mean(skipna=True): sum of the non-NaN entries over their count,
\* NaN when there is none
Count(v) == Cardinality({i \in DOMAIN v : ~IsNaN(v[i])})
mean(v) == Div(NanSum(v), Num(Count(v)))

\* Series.std(ddof=1, skipna=True), as its square: the sample variance
\* sum((avg - x)^2) / (count - 1) over the non-NaN entries, NaN when
\* count <= 1
var(v) ==
    LET avg == mean(v)
        sqr == [i \in DOMAIN v |->
                   IF IsNaN(v[i]) THEN Zero ELSE Mul(Sub(avg, v[i]), Sub(avg, v[i]))]
    IN  IF Count(v) <= 1 THEN NaN ELSE Div(NpSum(sqr), Num(Count(v) - 1))

\* Series.cummax(skipna=True): running maximum that steps over NaN entries
\* (taken as -inf) and shows NaN at their places
RECURSIVE AccMax(_, _)
AccMax(v, n) ==
    IF n = 0 THEN NInf
    ELSE FMax(AccMax(v, n - 1), IF IsNaN(v[n]) THEN NInf ELSE v[n])
cummax(v) == [i \in DOMAIN v |-> IF IsNaN(v[i]) THEN NaN ELSE AccMax(v, i)]

\* Series.min(skipna=True): the least non-NaN entry, NaN when there is none
RECURSIVE AccMin(_, _)
AccMin(v, n) ==
    IF n = 0 THEN PInf
    ELSE FMin(AccMin(v, n - 1), IF IsNaN(v[n]) THEN PInf ELSE v[n])
min(v) == IF Count(v) = 0 THEN NaN ELSE AccMin(v, Len(v))

-----------------------------------------------------------------------------
(* src/backtest.py *)

\* fault seeded into compute_returns: the rows with missing returns kept
compute_returns_keep_na(table, fm) == pct_change(table, fm)

\* returns = prices.pct_change().dropna()
compute_returns(table, fm) == dropna(pct_change(table, fm))

\* fault seeded into NormalizeWeights: the weights used as given
NormalizeWeightsNone(wts) == wts

\* w = np.array(weights, dtype=float); w = w / w.sum()
NormalizeWeights(wts) == [i \in DOMAIN wts |-> Div(wts[i], NpSum(wts))]

\* fault seeded into PortReturns: the ticker returns summed without weights
PortReturnsUnweighted(res, w) ==
    [t \in DOMAIN res |-> [date |-> res[t].date, val |-> NanSum(res[t].row)]]

\* port_returns = (results * w).sum(axis=1)
PortReturns(res, w) ==
    [t \in DOMAIN res |->
        [date |-> res[t].date,
         val  |-> NanSum([i \in DOMAIN w |-> Mul(res[t].row[i], w[i])])]]

\* fault seeded into EquityCurve: the growth factor taken as the return itself
EquityCurveNoOne(pr, amount) ==
    LET growth == cumprod([t \in DOMAIN pr |-> pr[t].val])
    IN  [t \in DOMAIN pr |-> [date |-> pr[t].date, val |-> Mul(growth[t], amount)]]

\* equity_curve = (1 + port_returns).cumprod() * initial_amount
EquityCurve(pr, amount) ==
    LET growth == cumprod([t \in DOMAIN pr |-> Add(One, pr[t].val)])
    IN  [t \in DOMAIN pr |-> [date |-> pr[t].date, val |-> Mul(growth[t], amount)]]

backtest_portfolio(table, wts, amount, fm) ==
    LET res == compute_returns(table, fm)
        w   == NormalizeWeights(wts)
        pr  == PortReturns(res, w)
    IN  [results |-> res, port_returns |-> pr, equity_curve |-> EquityCurve(pr, amount)]

TradingDays == 252

\* faults seeded into TotalReturn: the "- 1" forgotten; first and last swapped
TotalReturnNoMinusOne(eq) == Div(eq[Len(eq)], eq[1])
TotalReturnSwapped(eq) == Sub(Div(eq[1], eq[Len(eq)]), One)

\* total_returns = equity_curve.iloc[-1] / equity_curve.iloc[0] - 1
TotalReturn(eq) == Sub(Div(eq[Len(eq)], eq[1]), One)

\* fault seeded into Sharpe: the division made whatever the volatility
SharpeUnguarded(annual_return, rf, vol2) ==
    Div(SignedSq(Sub(annual_return, rf)), vol2)

\* sharpe = (annual_return - risk_free_rate) / annual_vol if annual_vol != 0
\*          else np.nan
\* vol2 is the square of annual_vol; the result is the signed square of sharpe
Sharpe(annual_return, rf, vol2) ==
    IF vol2 # Zero THEN Div(SignedSq(Sub(annual_return, rf)), vol2) ELSE NaN

\* fault seeded into Drawdown: the "- 1" forgotten
DrawdownNoMinusOne(eq) ==
    LET running_max == cummax(eq)
    IN  [t \in DOMAIN eq |-> Div(eq[t], running_max[t])]

\* drawdown = equity_curve / running_max - 1; max_drawdown = drawdown.min()
Drawdown(eq) ==
    LET running_max == cummax(eq)
    IN  [t \in DOMAIN eq |-> Sub(Div(eq[t], running_max[t]), One)]

MaxDrawdown(eq) == min(Drawdown(eq))

\* the mapping compute_metrics returns for a non-empty equity curve;
\* annual_vol and sharpe are carried as signed squares
compute_metrics(eq, pr, rf) ==
    LET daily_mean_return == mean(pr)
        daily_var         == var(pr)
        annual_return     == Mul(daily_mean_return, Num(TradingDays))
        annual_var        == Mul(daily_var, Num(TradingDays))
    IN  [total_return  |-> TotalReturn(eq),
         annual_return |-> annual_return,
         annual_vol    |-> annual_var,
         sharpe        |-> Sharpe(annual_return, rf, annual_var),
         max_drawdown  |-> MaxDrawdown(eq)]

-----------------------------------------------------------------------------
(* Inputs *)

Tickers == <<"A", "B">>
PriceVals == {Num(1), Num(2)}
\* weight vectors: equal, unequal, with a zero, short with sum 1, of negative
\* sum, and of sum zero (all zero, and cancelling)
WeightVectors ==
    { <<Num(1)>>, <<Num(2)>>, <<Num(-1)>>, <<Num(0)>>,
      <<Num(1), Num(1)>>, <<Num(2), Num(1)>>, <<Num(0), Num(1)>>,
      <<Num(2), Num(-1)>>, <<Num(-1), Num(-1)>>,
      <<Num(0), Num(0)>>, <<Num(1), Num(-1)>> }
InitialVals == {Num(10000)}
FillMethods == {"pad", "none"}
RiskFreeVals == {Zero, Frac(1, 50)}
EquityVals == {NaN, PInf, Num(-1), Zero, Num(1), Num(2)}
ReturnVals == {NaN, Zero, Frac(1, 10)}

Missing(table) == {c \in (DOMAIN table) \X (1..Len(Tickers)) :
                      c[2] \in DOMAIN table[c[1]] /\ IsNaN(table[c[1]][c[2]])}

\* the scenario of the specification's section 8
ScenarioPrices == << <<Num(100), Num(50)>>, <<Num(110), Num(55)>>, <<Num(99), Num(55)>> >>
ScenarioWeights == <<Frac(1, 2), Frac(1, 2)>>

NoMetrics == [total_return |-> NaN, annual_return |-> NaN, annual_vol |-> NaN,
              sharpe |-> NaN, max_drawdown |-> NaN]

InitInputs ==
    \/ /\ prices = ScenarioPrices
       /\ weights = ScenarioWeights
       /\ initial_amount = Num(10000)
    \/ \E k \in 1..Len(Tickers), n \in 0..MaxRows :
          /\ prices \in [1..n -> [1..k -> PriceVals \cup {NaN}]]
          /\ Cardinality(Missing(prices)) <= MaxMissing
          /\ weights \in {w \in WeightVectors : Len(w) = k}
          /\ initial_amount \in InitialVals

\* backtest_portfolio and compute_metrics called on their own: no presentation
\* layer, no benchmark call
NoApp ==
    /\ layer = "engine"
    /\ tickers = <<>>
    /\ columns = <<>>
    /\ dates_ok = TRUE
    /\ use_custom_weights = FALSE
    /\ weights_map = <<>>
    /\ include_spy = FALSE
    /\ spy_prices = <<>>
    /\ spy_pc = "none"
    /\ spy_returns = <<>>
    /\ spy_equity_curve = <<>>
    /\ spy_metrics = NoMetrics

Init ==
    /\ InitInputs
    /\ NoApp
    /\ fill_method \in FillMethods
    /\ risk_free_rate = Zero      \* the callers pass no risk_free_rate: default 0.0
    /\ pc = "start"
    /\ results = <<>>
    /\ port_returns = <<>>
    /\ equity_curve = <<>>
    /\ metrics = NoMetrics
    /\ error = "none"

\* compute_metrics called on series the caller built itself
InitMetrics ==
    /\ \E n \in 0..MaxLen :
       \E ev \in [1..n -> EquityVals], rv \in [1..n -> ReturnVals] :
          /\ equity_curve = [t \in 1..n |-> [date |-> t, val |-> ev[t]]]
          /\ port_returns = [t \in 1..n |-> [date |-> t, val |-> rv[t]]]
    /\ NoApp
    /\ prices = <<>>
    /\ weights = <<>>
    /\ initial_amount = Num(10000)
    /\ fill_method \in FillMethods
    /\ risk_free_rate \in RiskFreeVals
    /\ pc = "backtested"
    /\ results = <<>>
    /\ metrics = NoMetrics
    /\ error = "none"

BacktestPortfolio ==
    /\ pc = "start"
    /\ LET out == backtest_portfolio(prices, weights, initial_amount, fill_method)
       IN  /\ results' = out.results
           /\ port_returns' = out.port_returns
           /\ equity_curve' = out.equity_curve
    /\ pc' = "backtested"
    /\ UNCHANGED <<prices, weights, initial_amount, fill_method, risk_free_rate,
                   metrics, error, appvars, spyvars>>

\* variant: raises whenever the curve has fewer than two entries
ComputeMetricsNeedsTwo ==
    /\ pc = "backtested"
    /\ IF Len(equity_curve) <= 1
       THEN /\ pc' = "raised"
            /\ error' = "IndexError"
            /\ UNCHANGED metrics
       ELSE /\ pc' = "done"
            /\ metrics' = compute_metrics(Vals(equity_curve), Vals(port_returns),
                                          risk_free_rate)
            /\ UNCHANGED error
    /\ UNCHANGED <<prices, weights, initial_amount, fill_method, risk_free_rate,
                   results, port_returns, equity_curve, appvars, spyvars>>

\* compute_metrics(equity_curve, port_returns, risk_free_rate); on an empty
\* equity curve equity_curve.iloc[-1] raises IndexError
ComputeMetrics ==
    /\ pc = "backtested"
    /\ IF equity_curve = <<>>
       THEN /\ pc' = "raised"
            /\ error' = "IndexError"
            /\ UNCHANGED metrics
       ELSE /\ pc' = "done"
            /\ metrics' = compute_metrics(Vals(equity_curve), Vals(port_returns),
                                          risk_free_rate)
            /\ UNCHANGED error
    /\ UNCHANGED <<prices, weights, initial_amount, fill_method, risk_free_rate,
                   results, port_returns, equity_curve, appvars, spyvars>>

Next == BacktestPortfolio \/ ComputeMetrics

Spec == Init /\ [][Next]_vars

\* the pipeline, together with direct calls of compute_metrics
SpecMetrics == (Init \/ InitMetrics) /\ [][Next]_vars

-----------------------------------------------------------------------------
(* The presentation layers: main() of src/app_cli.py and the run block of   *)
(* src/app_streamlit.py.  prices, columns and spy_prices hold what the      *)
(* download returns for the user's tickers.                                 *)

\* ticker lists the user can enter, and the columns a download can return
TickerLists == {SubSeq(Tickers, 1, n) : n \in 0..Len(Tickers)}

RECURSIVE SelectIdx(_, _, _)
SelectIdx(sq, keep, i) ==
    IF i > Len(sq) THEN <<>>
    ELSE (IF i \in keep THEN <<sq[i]>> ELSE <<>>) \o SelectIdx(sq, keep, i + 1)

SubLists(sq) == {SelectIdx(sq, keep, 1) : keep \in SUBSET (DOMAIN sq)}

\* price tables without missing prices, k columns
AppTables(k) == UNION {[1..n -> [1..k -> PriceVals]] : n \in 0..MaxAppRows}

\* benchmark downloads: nothing, one return, two returns
SpyTables ==
    { <<>>,
      << <<Num(1)>>, <<Num(2)>> >>,
      << <<Num(2)>>, <<Num(1)>>, <<Num(2)>> >> }

\* the weight inputs of the dashboard, pct / 100.0 for pct = 0, 50, 100
PctVals == {Zero, Frac(1, 2), One}

\* the literal [1.0] of the benchmark call
SpyWeights == <<One>>

InitApp ==
    /\ weights = <<>>
    /\ initial_amount \in InitialVals
    /\ fill_method \in FillMethods
    /\ risk_free_rate = Zero
    /\ pc = "main"
    /\ results = <<>>
    /\ port_returns = <<>>
    /\ equity_curve = <<>>
    /\ metrics = NoMetrics
    /\ error = "none"
    /\ spy_pc = "none"
    /\ spy_returns = <<>>
    /\ spy_equity_curve = <<>>
    /\ spy_metrics = NoMetrics

\* the command line: --tickers takes one or more names; equal weights only
InitCli ==
    /\ InitApp
    /\ layer = "cli"
    /\ tickers \in TickerLists \ {<<>>}
    /\ columns = tickers
    /\ prices \in AppTables(Len(tickers))
    /\ dates_ok = TRUE
    /\ use_custom_weights = FALSE
    /\ weights_map = <<>>
    /\ include_spy = TRUE
    /\ spy_prices \in SpyTables

\* the dashboard's sidebar: weights_map is None (here the empty mapping) unless
\* custom weights are switched on, which needs at least one ticker
InitDashboard ==
    /\ InitApp
    /\ layer = "dashboard"
    /\ tickers \in TickerLists
    /\ dates_ok \in BOOLEAN
    /\ use_custom_weights \in (IF tickers = <<>> THEN {FALSE} ELSE BOOLEAN)
    /\ weights_map \in (IF use_custom_weights THEN [Range(tickers) -> PctVals]
                                               ELSE {<<>>})
    /\ columns \in SubLists(tickers)
    /\ prices \in (IF columns = <<>> THEN {<<>>} ELSE AppTables(Len(columns)))
    /\ include_spy \in BOOLEAN
    /\ spy_prices \in (IF include_spy THEN SpyTables ELSE {<<>>})

\* [1 / n] * n
EqualWeights(n) == [i \in 1..n |-> Div(One, Num(n))]

\* main(): n = len(tickers); weights = [1 / n] * n
CliMain ==
    /\ pc = "main"
    /\ layer = "cli"
    /\ weights' = EqualWeights(Len(tickers))
    /\ pc' = "start"
    /\ spy_pc' = "start"
    /\ UNCHANGED <<prices, initial_amount, fill_method, risk_free_rate, results,
                   port_returns, equity_curve, metrics, error, appvars,
                   spy_prices, spy_returns, spy_equity_curve, spy_metrics>>

\* weights_map.get(col, 0.0)
Get(map, key, default) == IF key \in DOMAIN map THEN map[key] ELSE default

\* variant: the dashboard without its check of the custom weights' total
CustomWeightsUnchecked(raw_weights) ==
    [stop |-> FALSE,
     weights |-> [i \in DOMAIN raw_weights |-> Div(raw_weights[i], NpSum(raw_weights))]]

\* total_raw = raw_weights.sum(); stop when it is 0, else raw_weights / total_raw
CustomWeights(raw_weights) ==
    LET total_raw == NpSum(raw_weights)
    IN  IF total_raw = Zero
        THEN [stop |-> TRUE, weights |-> <<>>]
        ELSE [stop |-> FALSE,
              weights |-> [i \in DOMAIN raw_weights |-> Div(raw_weights[i], total_raw)]]

\* st.error / st.warning followed by the end of the script run
Stop(msg) ==
    /\ pc' = "stopped"
    /\ error' = msg
    /\ UNCHANGED <<prices, weights, spy_pc>>

\* the run block of the dashboard up to the call of backtest_portfolio
DashboardRun ==
    /\ pc = "main"
    /\ layer = "dashboard"
    /\ LET keep == {i \in DOMAIN columns : columns[i] \in Range(tickers)}
           available_columns == SelectIdx(columns, keep, 1)
           selected == [d \in DOMAIN prices |-> SelectIdx(prices[d], keep, 1)]
           raw_weights == [i \in DOMAIN available_columns |->
                              Get(weights_map, available_columns[i], Zero)]
           custom == CustomWeights(raw_weights)
       IN  IF tickers = <<>> THEN Stop("NoTickers")
           ELSE IF ~dates_ok THEN Stop("BadDates")
           ELSE IF prices = <<>> \/ columns = <<>> THEN Stop("NoData")
           ELSE IF available_columns = <<>> THEN Stop("NoValidTickers")
           ELSE IF use_custom_weights /\ weights_map # <<>> /\ custom.stop
                THEN Stop("ZeroWeights")
           ELSE /\ prices' = selected
                /\ weights' = IF use_custom_weights /\ weights_map # <<>>
                                 THEN custom.weights
                                 ELSE EqualWeights(Len(available_columns))
                /\ pc' = "start"
                /\ spy_pc' = IF include_spy THEN "start" ELSE "none"
                /\ UNCHANGED error
    /\ UNCHANGED <<initial_amount, fill_method, risk_free_rate, results,
                   port_returns, equity_curve, metrics, appvars,
                   spy_prices, spy_returns, spy_equity_curve, spy_metrics>>

\* variant: the benchmark's curve compounds on from the portfolio's last equity
SpyBacktestCarriesEquity ==
    /\ spy_pc = "start"
    /\ LET out == backtest_portfolio(spy_prices, SpyWeights, initial_amount, fill_method)
           carried == IF equity_curve = <<>> THEN initial_amount
                      ELSE equity_curve[Len(equity_curve)].val
       IN  /\ spy_returns' = out.port_returns
           /\ spy_equity_curve' = EquityCurve(out.port_returns, carried)
    /\ spy_pc' = "backtested"
    /\ UNCHANGED <<prices, weights, initial_amount, fill_method, risk_free_rate,
                   pc, results, port_returns, equity_curve, metrics, error,
                   appvars, spy_prices, spy_metrics>>

\* backtest_portfolio(spy_prices, [1.0], initial_amount)
SpyBacktest ==
    /\ spy_pc = "start"
    /\ LET out == backtest_portfolio(spy_prices, SpyWeights, initial_amount, fill_method)
       IN  /\ spy_returns' = out.port_returns
           /\ spy_equity_curve' = out.equity_curve
    /\ spy_pc' = "backtested"
    /\ UNCHANGED <<prices, weights, initial_amount, fill_method, risk_free_rate,
                   pc, results, port_returns, equity_curve, metrics, error,
                   appvars, spy_prices, spy_metrics>>

\* compute_metrics(spy_equity_curve, spy_returns)
SpyMetrics ==
    /\ spy_pc = "backtested"
    /\ IF spy_equity_curve = <<>>
       THEN /\ spy_pc' = "raised"
            /\ error' = "IndexError"
            /\ UNCHANGED spy_metrics
       ELSE /\ spy_pc' = "done"
            /\ spy_metrics' = compute_metrics(Vals(spy_equity_curve), Vals(spy_returns),
                                              risk_free_rate)
            /\ UNCHANGED error
    /\ UNCHANGED <<prices, weights, initial_amount, fill_method, risk_free_rate,
                   pc, results, port_returns, equity_curve, metrics,
                   appvars, spy_prices, spy_returns, spy_equity_curve>>

\* the benchmark call follows the portfolio's metrics
MainSpyBacktest == pc = "done" /\ SpyBacktest

NextApp ==
    \/ CliMain
    \/ DashboardRun
    \/ BacktestPortfolio
    \/ ComputeMetrics
    \/ MainSpyBacktest
    \/ SpyMetrics

\* one run of a presentation layer
SpecApp == (InitCli \/ InitDashboard) /\ [][NextApp]_vars

\* two callers of the engine whose calls interleave in any order: the
\* portfolio's calls and the benchmark's calls of a presentation layer
NextCalls ==
    \/ CliMain
    \/ DashboardRun
    \/ BacktestPortfolio
    \/ ComputeMetrics
    \/ SpyBacktest
    \/ SpyMetrics

SpecCalls == (InitCli \/ InitDashboard) /\ [][NextCalls]_vars

-----------------------------------------------------------------------------
(* Properties *)

NoMissing(table) == Missing(table) = {}

Scenario == prices = ScenarioPrices /\ weights = ScenarioWeights
               /\ initial_amount = Num(10000)

AllFinite(v) == \A t \in DOMAIN v : IsFinite(v[t])
First(s) == s[1].val
Last(s) == s[Len(s)].val

\* C1 as stated: in the scenario A=[100,110,99], B=[50,55,55], weights
\* [0.5,0.5], initial 10000, compute_metrics reports total_return = 0.045
C1_ScenarioTotalReturnStated ==
    (Scenario /\ pc = "done") => metrics.total_return = Frac(45, 1000)

\* C1 amended: in that scenario compute_metrics reports
\* total_return = 10450/11000 - 1 = -0.05, the return from the first entry
\* of the equity curve to the last
C1_ScenarioTotalReturn ==
    (Scenario /\ pc = "done") => metrics.total_return = Frac(-5, 100)

C1_Witness ==
    /\ Scenario /\ pc = "done"
    /\ Vals(equity_curve) = <<Num(11000), Num(10450)>>
    /\ metrics.total_return = Frac(-1, 20)

\* C2: for every non-empty equity curve total_return is last/first - 1, the
\* first entry being the first element of the curve: when first is finite
\* and non-zero and last is finite, (total_return + 1) * first = last; the
\* other cases are the IEEE values of the quotient
C2_TotalReturnLastOverFirst ==
    pc = "done" =>
        LET first == First(equity_curve)
            last  == Last(equity_curve)
            tr    == metrics.total_return
        IN  IF IsNaN(first) \/ IsNaN(last) THEN IsNaN(tr)
            ELSE IF IsInf(first) THEN (IF IsInf(last) THEN IsNaN(tr) ELSE tr = Num(-1))
            ELSE IF first = Zero
                 THEN (IF last = Zero THEN IsNaN(tr) ELSE IsInf(tr) /\ Sign(tr) = Sign(last))
            ELSE IF IsInf(last) THEN IsInf(tr) /\ Sign(tr) = Sign(last) * Sign(first)
            ELSE Mul(Add(tr, One), first) = last

\* a run of the pipeline whose first equity entry differs from the initial
\* amount, so that total_return is not last/initial_amount - 1
C2_Witness ==
    /\ pc = "done" /\ results # <<>>
    /\ IsFinite(First(equity_curve)) /\ First(equity_curve) # Zero
    /\ First(equity_curve) # initial_amount
    /\ IsFinite(Last(equity_curve))
    /\ metrics.total_return # Sub(Div(Last(equity_curve), initial_amount), One)

ScaleVals == {Num(-1), Num(3), Frac(1, 4)}
Scale(k, wts) == [i \in DOMAIN wts |-> Mul(k, wts[i])]

C4_RoundTripStated ==
    (pc = "backtested" /\ NpSum(weights) # Zero /\ NoMissing(prices)) =>
        \A t \in DOMAIN equity_curve :
            t >= 2 => Sub(Div(equity_curve[t].val, equity_curve[t - 1].val), One)
                          = port_returns[t].val

\* C4 amended: at every index after the first where the previous equity
\* value is finite and non-zero and the return is finite,
\* equity[t] / equity[t-1] - 1 equals returns[t]
C4_RoundTrip ==
    pc = "backtested" =>
        \A t \in DOMAIN equity_curve :
            (/\ t >= 2
             /\ IsFinite(equity_curve[t - 1].val) /\ equity_curve[t - 1].val # Zero
             /\ IsFinite(port_returns[t].val))
            => Sub(Div(equity_curve[t].val, equity_curve[t - 1].val), One)
                   = port_returns[t].val

C4_Witness ==
    /\ pc = "backtested" /\ Len(equity_curve) >= 2
    /\ IsFinite(equity_curve[1].val) /\ equity_curve[1].val # Zero
    /\ IsFinite(port_returns[2].val) /\ port_returns[2].val # Zero
    /\ port_returns[2].val # port_returns[1].val
    /\ Sub(Div(equity_curve[2].val, equity_curve[1].val), One) = port_returns[2].val

NonDecreasing(v) == \A t \in DOMAIN v : t >= 2 => Leq(v[t - 1], v[t])

\* C5 as stated, for series of finite values: max_drawdown <= 0, and
\* max_drawdown = 0 when the equity curve is non-decreasing
C5_MaxDrawdownStated ==
    (pc = "done" /\ AllFinite(Vals(equity_curve)) /\ AllFinite(Vals(port_returns))) =>
        /\ Leq(metrics.max_drawdown, Zero)
        /\ NonDecreasing(Vals(equity_curve)) => metrics.max_drawdown = Zero

\* C5 amended: for every non-empty equity curve that holds a finite non-zero
\* value, max_drawdown <= 0, and max_drawdown = 0 when the curve is
\* non-decreasing (a curve of zeros gives NaN)
C5_MaxDrawdown ==
    (pc = "done" /\ \E t \in DOMAIN equity_curve :
                       IsFinite(equity_curve[t].val) /\ equity_curve[t].val # Zero) =>
        /\ Leq(metrics.max_drawdown, Zero)
        /\ NonDecreasing(Vals(equity_curve)) => metrics.max_drawdown = Zero

C5_Witness ==
    /\ pc = "done" /\ Len(equity_curve) >= 2
    /\ AllFinite(Vals(equity_curve))
    /\ Less(equity_curve[2].val, equity_curve[1].val)
    /\ Less(metrics.max_drawdown, Zero)

RowPresent(table, d) == \A i \in DOMAIN table[d] : ~IsNaN(table[d][i])

\* the simple return of ticker i on date d: (price[d] - price[d-1]) / price[d-1]
SimpleReturn(table, d, i) == Div(Sub(table[d][i], table[d - 1][i]), table[d - 1][i])

RECURSIVE WeightedSumTo(_, _, _)
WeightedSumTo(wts, r, n) ==
    IF n = 0 THEN Zero ELSE Add(WeightedSumTo(wts, r, n - 1), Mul(wts[n], r[n]))

C7_SharpeGuarded ==
    pc = "done" =>
        LET vol2   == metrics.annual_vol
            excess == Sub(metrics.annual_return, risk_free_rate)
            s      == metrics.sharpe
            r      == Vals(port_returns)
        IN  /\ vol2 = Zero => IsNaN(s)
            /\ (IsNaN(vol2) \/ IsNaN(excess)) => IsNaN(s)
            /\ (IsFinite(vol2) /\ vol2 # Zero /\ IsFinite(excess)) =>
                   Mul(s, vol2) = SignedSq(excess)
            /\ (vol2 = PInf /\ IsFinite(excess)) => s = Zero
            /\ (vol2 = PInf /\ IsInf(excess)) => IsNaN(s)
            /\ (IsFinite(vol2) /\ vol2 # Zero /\ IsInf(excess)) => s = excess
            /\ (Len(r) >= 2 /\ \A t \in DOMAIN r : r[t] = Zero) =>
                   vol2 = Zero /\ IsNaN(s)

\* returns constant 0.0 over two periods and a non-zero excess return: the
\* quotient would be infinite, sharpe is NaN
C7_Witness ==
    /\ pc = "done" /\ Len(port_returns) >= 2
    /\ \A t \in DOMAIN port_returns : port_returns[t].val = Zero
    /\ metrics.annual_vol = Zero
    /\ metrics.annual_return # risk_free_rate
    /\ IsNaN(metrics.sharpe)

\* C8: the equity curve and the portfolio returns have the same length and
\* the same dates in the same, increasing order; for a price table of N >= 1
\* rows without missing values they hold the N - 1 dates after the first
C8_OutputsAligned ==
    pc = "backtested" =>
        /\ Len(equity_curve) = Len(port_returns)
        /\ Dates(equity_curve) = Dates(port_returns)
        /\ \A t \in DOMAIN port_returns :
               t >= 2 => port_returns[t - 1].date < port_returns[t].date
        /\ (Len(prices) >= 1 /\ NoMissing(prices)) =>
               Dates(port_returns) = [t \in 1..(Len(prices) - 1) |-> t + 1]

C8_Witness ==
    /\ pc = "backtested" /\ Len(prices) = 3 /\ NoMissing(prices)
    /\ Dates(equity_curve) = <<2, 3>>
    /\ Dates(port_returns) = <<2, 3>>

\* C9 as stated, for a price table of two or more rows without missing
\* values: a call of backtest_portfolio with weights of sum zero ends in an
\* error, it does not return a portfolio return series and an equity curve
C9_ZeroWeightSumRaises ==
    (pc = "backtested" /\ NpSum(weights) = Zero /\ Len(prices) >= 2 /\ NoMissing(prices))
        => error # "none"

\* C10: on a price table of fewer than 2 rows backtest_portfolio raises
\* nothing and returns an empty portfolio return series and an empty
\* equity curve
C10_ShortTableGivesEmptySeries ==
    (pc = "backtested" /\ Len(prices) < 2) =>
        /\ error = "none"
        /\ port_returns = <<>>
        /\ equity_curve = <<>>

C10_Witness ==
    /\ pc = "backtested" /\ Len(prices) = 1 /\ NoMissing(prices)
    /\ port_returns = <<>> /\ equity_curve = <<>> /\ error = "none"

-----------------------------------------------------------------------------
\* the keys read by the report loop of src/app_cli.py
MetricKeys == {"total_return", "annual_return", "annual_vol", "sharpe", "max_drawdown"}

\* C11: for every non-empty equity curve, a single entry included, and its
\* return series, compute_metrics completes without raising and returns a
\* mapping whose keys are exactly total_return, annual_return, annual_vol,
\* sharpe and max_drawdown.
C11_MetricsTotalOnNonEmpty ==
    (pc \in {"done", "raised"} /\ equity_curve # <<>>) =>
        /\ pc = "done"
        /\ error = "none"
        /\ DOMAIN metrics = MetricKeys

\* a curve of one entry went through compute_metrics: std() of one return is
\* NaN, nothing raised
C11_Witness ==
    /\ pc = "done"
    /\ Len(equity_curve) = 1
    /\ error = "none"
    /\ DOMAIN metrics = MetricKeys
    /\ IsNaN(metrics.annual_vol)
    /\ IsNaN(metrics.sharpe)

-----------------------------------------------------------------------------
\* the recurrence of the equity curve, over the returned series in date order
EquityRecurrence(eq, pr, amount) ==
    \A t \in DOMAIN eq :
        eq[t] = IF t = 1 THEN Mul(amount, Add(One, pr[1]))
                         ELSE Mul(eq[t - 1], Add(One, pr[t]))

\* C13: the equity curve returned by backtest_portfolio satisfies
\* equity[0] = initial_amount * (1 + returns[0]) and
\* equity[t] = equity[t-1] * (1 + returns[t]) for every t >= 1; for the
\* scenario prices A=[100,110,99], B=[50,55,55], weights [0.5,0.5], initial
\* 10000 the returns are [0.10, -0.05] and the equity is [11000, 10450].
C13_EquityRecurrence ==
    (pc = "backtested" /\ NoMissing(prices)) =>
        /\ EquityRecurrence(Vals(equity_curve), Vals(port_returns), initial_amount)
        /\ Scenario =>
              /\ Vals(port_returns) = <<Frac(1, 10), Frac(-1, 20)>>
              /\ Vals(equity_curve) = <<Num(11000), Num(10450)>>

-----------------------------------------------------------------------------
\* C14: each ticker's return on a date is computed from that date's price and
\* the immediately preceding row's price, with no forward or backward filling
\* of missing prices, and every date on which any ticker's return is missing
\* is dropped: a date appears in the output only if every ticker has a
\* non-missing price on that row and on the row before it.
C14_NoFillOfMissingPrices ==
    (pc = "backtested") =>
        \A j \in DOMAIN results :
            LET d == results[j].date
            IN  /\ d >= 2
                /\ RowPresent(prices, d)
                /\ RowPresent(prices, d - 1)
                /\ \A i \in DOMAIN results[j].row :
                       results[j].row[i] = SimpleReturn(prices, d, i)

-----------------------------------------------------------------------------
\* the outputs a caller holds are those of a fresh call on its own arguments
PortfolioResultOfArguments ==
    /\ pc \in {"backtested", "done", "raised"} =>
          [results |-> results, port_returns |-> port_returns,
           equity_curve |-> equity_curve]
              = backtest_portfolio(prices, weights, initial_amount, fill_method)
    /\ pc = "done" =>
          metrics = compute_metrics(Vals(equity_curve), Vals(port_returns), risk_free_rate)

SpyResultOfArguments ==
    /\ spy_pc \in {"backtested", "done", "raised"} =>
          LET out == backtest_portfolio(spy_prices, SpyWeights, initial_amount, fill_method)
          IN  spy_returns = out.port_returns /\ spy_equity_curve = out.equity_curve
    /\ spy_pc = "done" =>
          spy_metrics = compute_metrics(Vals(spy_equity_curve), Vals(spy_returns),
                                        risk_free_rate)

-----------------------------------------------------------------------------
\* backtest_portfolio is about to be called, or has been called, with weights
Called == pc \in {"start", "backtested", "done", "raised"}

\* the custom weights of the tickers that have data
AvailableCustomWeights ==
    [i \in DOMAIN columns |-> Get(weights_map, columns[i], Zero)]

\* C15: in every run of the presentation layers backtest_portfolio is only
\* called with a weight vector whose sum is non-zero: the command line passes
\* equal weights 1/n for n >= 1 tickers, the benchmark call passes [1.0], and
\* the dashboard stops with an error before the call when the custom weights
\* of the available tickers total zero.
C15_WeightSumNonZero ==
    /\ Called =>
          /\ IsFinite(NpSum(weights))
          /\ NpSum(weights) # Zero
    /\ (Called /\ layer = "cli") =>
          /\ Len(tickers) >= 1
          /\ weights = [i \in DOMAIN tickers |-> Frac(1, Len(tickers))]
    /\ (layer = "dashboard" /\ use_custom_weights
          /\ NpSum(AvailableCustomWeights) = Zero) => ~Called
    /\ spy_pc # "none" => NpSum(SpyWeights) # Zero

\* the dashboard called backtest_portfolio with unequal custom weights
C15_Witness ==
    /\ layer = "dashboard"
    /\ pc = "backtested"
    /\ use_custom_weights
    /\ weights = <<Frac(1, 3), Frac(2, 3)>>
    /\ NpSum(weights) = One

====
